---- MODULE Spec2Model ----
(***************************************************************************)
(* CCMgen: the sequence-weighting policies of ccmpred/weighting and the    *)
(* command-line driver ccmpred/scripts/run_ccmgen.py.                      *)
(*                                                                         *)
(* Alignments are sequences of rows, a row a sequence of integer codes.    *)
(* Rows and columns are numbered from 1 here (Python: from 0); the codes   *)
(* keep their values, 0 being the gap state.  Floating-point weights are   *)
(* exact rationals <<p, q>> in lowest terms; <<1, 0>> is numpy's inf.      *)
(***************************************************************************)
EXTENDS Integers, Sequences, FiniteSets, TLC

VARIABLES
    \* ---- ccmpred.weighting ----
    msa,        \* the alignment handed to a weighting function
    wpc,        \* "idle", or the weighting function that has returned
    wargs,      \* the cutoff and count_gaps the function was called with
    weights,    \* what the function returned: [ok, v]
    cws_calls,  \* number of calls of the C routine calculate_weights_simple
    visited,    \* the (n, k, l) visited by the loops of weights_henikoff_pair
    \* ---- run_ccmgen.main ----
    argv,       \* the command line
    files,      \* contents of the alignment and raw potential files
    pc,         \* position of main
    opt,        \* the parsed options
    ccm,        \* the CCMpred object
    x,          \* the flattened potentials handed to the samplers
    tree,       \* the CCMTree object
    sampler,    \* the samplers invoked so far, in order
    msa_sampled,\* shape of the sampled alignment
    written     \* what write_msa received

wvars == <<msa, wpc, wargs, weights, cws_calls, visited>>
mvars == <<argv, files, pc, opt, ccm, x, tree, sampler, msa_sampled, written>>
vars == <<msa, wpc, wargs, weights, cws_calls, visited,
          argv, files, pc, opt, ccm, x, tree, sampler, msa_sampled, written>>

-----------------------------------------------------------------------------
(* Bounds of the model *)

MaxRows == 3
MaxCols == 3
MaxCells == 6
MaxCode == 2
NumStates == 7
MaxN == 2
MaxL == 2
MaxPotStates == 2
MaxSeed == 2
MaxNseq == 2
MaxMcmcNseq == 2
MaxLeaves == 2

-----------------------------------------------------------------------------
(* float64 arithmetic, exact *)

RECURSIVE GCD(_, _)
GCD(a, b) == IF b = 0 THEN a ELSE GCD(b, a % b)

RNorm(p, q) == IF q = 0 THEN <<1, 0>> ELSE LET g == GCD(p, q) IN <<p \div g, q \div g>>

RZero == <<0, 1>>
ROne == <<1, 1>>

\* 1/n for a count n >= 0; numpy gives inf for 1/0.
RInv(n) == IF n = 0 THEN <<1, 0>> ELSE <<1, n>>

RAdd(a, b) == IF a[2] = 0 \/ b[2] = 0 THEN <<1, 0>>
              ELSE RNorm(a[1] * b[2] + b[1] * a[2], a[2] * b[2])

RFinite(a) == a[2] # 0
RLeq(a, b) == a[1] * b[2] <= b[1] * a[2]
RLess(a, b) == a[1] * b[2] < b[1] * a[2]
RInt(n) == <<n, 1>>

RECURSIVE RSumSeq(_)
RSumSeq(s) == IF s = <<>> THEN RZero ELSE RAdd(s[1], RSumSeq(Tail(s)))

-----------------------------------------------------------------------------
(* Alignments *)

nrow(m) == Len(m)
ncol(m) == Len(m[1])
States == 0 .. (NumStates - 1)

Ok(v) == [ok |-> TRUE, v |-> v]
ValueError == [ok |-> FALSE, v |-> <<>>]

-----------------------------------------------------------------------------
(* ccmpred.weighting *)

\* np.ones((msa.shape[0],))
weights_uniform_by_columns(m) == [n \in 1 .. ncol(m) |-> ROne]
weights_uniform(m) == [n \in 1 .. nrow(m) |-> ROne]

\* The C routine (ccmpred.weighting.cext): weight[n] = 1 / (number of rows,
\* row n included, whose fractional identity to row n exceeds the cutoff).
Identities(m, n, o, count_gaps) ==
    Cardinality({l \in 1 .. ncol(m) : m[n][l] = m[o][l] /\ (count_gaps \/ m[n][l] # 0)})

calculate_weights_simple(m, cutoff, count_gaps) ==
    [n \in 1 .. nrow(m) |->
        RInv(1 + Cardinality({o \in (1 .. nrow(m)) \ {n} :
                 Identities(m, n, o, count_gaps) * cutoff[2] > cutoff[1] * ncol(m)}))]

\* Returns the weights and the number of calls made to the C routine.
weights_simple_strict(m, cutoff, count_gaps) ==
    IF RLess(ROne, cutoff)
    THEN [w |-> weights_uniform(m), cws |-> 0]
    ELSE [w |-> calculate_weights_simple(m, cutoff, count_gaps), cws |-> 1]
weights_simple(m, cutoff, count_gaps) ==
    IF RLeq(ROne, cutoff)
    THEN [w |-> weights_uniform(m), cws |-> 0]
    ELSE [w |-> calculate_weights_simple(m, cutoff, count_gaps), cws |-> 1]

\* ccmpred.counts.single_counts(msa, None): occurrences of state a in column l.
single_counts(m) ==
    [l \in 1 .. ncol(m) |->
        [a \in States |-> Cardinality({n \in 1 .. nrow(m) : m[n][l] = a})]]

\* numpy's a + b for two 1-d arrays, with broadcasting of a length-1 operand.
BroadcastAdd(a, b) ==
    IF ~a.ok \/ ~b.ok THEN ValueError
    ELSE IF Len(a.v) = Len(b.v) THEN Ok([i \in 1 .. Len(a.v) |-> RAdd(a.v[i], b.v[i])])
    ELSE IF Len(a.v) = 1 THEN Ok([i \in 1 .. Len(b.v) |-> RAdd(a.v[1], b.v[i])])
    ELSE IF Len(b.v) = 1 THEN Ok([i \in 1 .. Len(a.v) |-> RAdd(a.v[i], b.v[1])])
    ELSE ValueError

\* Python's builtin sum over the rows of an array: 0 + rows[1] + rows[2] + ...
RECURSIVE BuiltinSumFrom(_, _, _)
BuiltinSumFrom(rows, i, acc) ==
    IF i > Len(rows) THEN acc
    ELSE BuiltinSumFrom(rows, i + 1, BroadcastAdd(acc, Ok(rows[i])))

BuiltinSum(rows) == BuiltinSumFrom(rows, 2, Ok(rows[1]))

\* The set of results weights_henikoff can return.  When the rows of
\* cNi_nogaps differ in length, np.array either raises (numpy >= 1.24) or
\* builds an array of arrays, which sum() adds with broadcasting.
weights_henikoff(m, count_gaps) ==
    LET sc0 == single_counts(m)
        sc == IF ~count_gaps
              THEN [l \in 1 .. ncol(m) |-> [sc0[l] EXCEPT ![0] = 0]]
              ELSE sc0
        unique_aa == [l \in 1 .. ncol(m) |-> Cardinality({a \in States : sc[l][a] # 0})]
        cNi == [n \in 1 .. nrow(m) |->
                   [l \in 1 .. ncol(m) |-> sc[l][m[n][l]] * unique_aa[l]]]
        cNi_nogaps == [n \in 1 .. nrow(m) |-> SelectSeq(cNi[n], LAMBDA c : c # 0)]
        ragged == \E n \in 1 .. nrow(m) : Len(cNi_nogaps[n]) # Len(cNi_nogaps[1])
        inverse == [n \in 1 .. nrow(m) |->
                       [i \in 1 .. Len(cNi_nogaps[n]) |-> RInv(cNi_nogaps[n][i])]]
    IN  IF ragged THEN {ValueError, BuiltinSum(inverse)} ELSE {BuiltinSum(inverse)}

\* ccmpred.counts.pair_counts(msa, None)[k, l, a, b]
pair_counts(m, k, l, a, b) ==
    Cardinality({n \in 1 .. nrow(m) : m[n][k] = a /\ m[n][l] = b})

\* (pair_counts != 0).sum(3).sum(2)[k, l]
unique_pairs(m, k, l) ==
    Cardinality({ab \in States \X States : pair_counts(m, k, l, ab[1], ab[2]) # 0})

\* for l in range(k+1, ncol)
RECURSIVE InnerLoop(_, _, _)
InnerLoop(k, l, nc) ==
    IF l > nc THEN <<>> ELSE <<<<k, l>>>> \o InnerLoop(k, l + 1, nc)

\* for k in range(ncol-1)
RECURSIVE OuterLoop(_, _)
OuterLoop(k, nc) ==
    IF k > nc - 1 THEN <<>> ELSE InnerLoop(k, k + 1, nc) \o OuterLoop(k + 1, nc)

RECURSIVE OuterLoopFromK(_, _)
OuterLoopFromK(k, nc) ==
    IF k > nc - 1 THEN <<>> ELSE InnerLoop(k, k, nc) \o OuterLoopFromK(k + 1, nc)

\* The column pairs the two inner loops visit, in order.
HenikoffPairVisitsFromK(nc) == OuterLoopFromK(1, nc)
HenikoffPairVisits(nc) == OuterLoop(1, nc)

\* henikoff[n] += 1/(pair_counts[k,l, msa[n][k],msa[n][l]] * unique_aa[k,l])
RECURSIVE HenikoffPairAccumulate(_, _, _, _)
HenikoffPairAccumulate(m, n, visits, acc) ==
    IF visits = <<>> THEN acc
    ELSE LET k == visits[1][1]
             l == visits[1][2]
         IN  HenikoffPairAccumulate(m, n, Tail(visits),
                 RAdd(acc, RInv(pair_counts(m, k, l, m[n][k], m[n][l])
                                * unique_pairs(m, k, l))))

weights_henikoff_pair(m) ==
    [n \in 1 .. nrow(m) |->
        HenikoffPairAccumulate(m, n, HenikoffPairVisits(ncol(m)), RZero)]

-----------------------------------------------------------------------------
(* The weighting functions as operations *)

\* The worked example of the Henikoff paper (weights_henikoff's comment).
HenikoffExample == << <<0, 1, 3, 0, 6>>, <<0, 2, 4, 0, 2>>,
                      <<0, 1, 4, 0, 2>>, <<0, 1, 5, 0, 0>> >>

Alignments ==
    {HenikoffExample} \cup
    UNION {[1 .. N -> [1 .. L -> 0 .. MaxCode]] :
              <<N, L>> \in {s \in (1 .. MaxRows) \X (1 .. MaxCols) : s[1] * s[2] <= MaxCells}}

Cutoffs == {<<1, 2>>, <<4, 5>>, <<1, 1>>, <<3, 2>>}

NoArgs == [cutoff |-> RZero, count_gaps |-> FALSE]

CallUniform ==
    /\ wpc = "idle"
    /\ wpc' = "weights_uniform"
    /\ weights' = Ok(weights_uniform(msa))
    /\ UNCHANGED mvars
    /\ UNCHANGED <<msa, wargs, cws_calls, visited>>

CallSimple ==
    /\ wpc = "idle"
    /\ \E cutoff \in Cutoffs, count_gaps \in BOOLEAN :
          LET r == weights_simple(msa, cutoff, count_gaps)
          IN  /\ wargs' = [cutoff |-> cutoff, count_gaps |-> count_gaps]
              /\ weights' = Ok(r.w)
              /\ cws_calls' = cws_calls + r.cws
    /\ wpc' = "weights_simple"
    /\ UNCHANGED mvars
    /\ UNCHANGED <<msa, visited>>

CallHenikoff ==
    /\ wpc = "idle"
    /\ \E count_gaps \in BOOLEAN :
          /\ wargs' = [cutoff |-> RZero, count_gaps |-> count_gaps]
          /\ weights' \in weights_henikoff(msa, count_gaps)
    /\ wpc' = "weights_henikoff"
    /\ UNCHANGED mvars
    /\ UNCHANGED <<msa, cws_calls, visited>>

CallHenikoffPair ==
    /\ wpc = "idle"
    /\ wpc' = "weights_henikoff_pair"
    /\ weights' = Ok(weights_henikoff_pair(msa))
    /\ visited' = HenikoffPairVisits(ncol(msa))
    /\ UNCHANGED mvars
    /\ UNCHANGED <<msa, wargs, cws_calls>>

NextWeights ==
    \/ CallUniform
    \/ CallSimple
    \/ CallHenikoffPair
    \/ CallHenikoff

-----------------------------------------------------------------------------
(* run_ccmgen.parse_args *)

\* An absent option value (Python's None) is the empty tuple, a given one <<v>>.
None == <<>>
Given(v) == v # None

NoOpt == [tree_file |-> None, tree_source |-> "None", mutation_rate |-> 0,
          mutation_rate_neff |-> FALSE, nseq |-> 0, mcmc |-> FALSE,
          mcmc_nseq |-> 0, pdbfile |-> None, max_gap_pos |-> 100]

\* parser.parse_args(): the destinations, with the defaults of the absent options.
Namespace(a) ==
    [tree_file |-> a.tree_newick,
     tree_source |-> IF a.tree_binary THEN "binary" ELSE IF a.tree_star THEN "star" ELSE "None",
     mutation_rate |-> IF Given(a.mutation_rate) THEN a.mutation_rate[1] ELSE 0,
     mutation_rate_neff |-> a.mutation_rate_neff,
     nseq |-> a.nseq,
     mcmc |-> a.mcmc,
     mcmc_nseq |-> a.mcmc_nseq,
     pdbfile |-> a.pdbfile,
     max_gap_pos |-> a.max_gap_pos]

\* The two mutually exclusive groups of the parser.
ExclusiveGroupError(a) ==
    \/ Cardinality({o \in {"newick", "binary", "star"} :
           \/ o = "newick" /\ Given(a.tree_newick)
           \/ o = "binary" /\ a.tree_binary
           \/ o = "star" /\ a.tree_star}) > 1
    \/ Given(a.mutation_rate) /\ a.mutation_rate_neff

\* Python truthiness of an option value: None and the empty string are false.
Truthy(v) == v # None /\ v # <<"">>

\* The two checks after parser.parse_args(): TRUE when parser.error is called.
OptionCheckErrorNoRateCheck(o) ==
    ~o.mcmc /\ o.tree_source = "None" /\ ~Truthy(o.tree_file)
OptionCheckError(o) ==
    \/ ~o.mcmc /\ o.tree_source = "None" /\ ~Truthy(o.tree_file)
    \/ /\ o.tree_source # "None" \/ Truthy(o.tree_file)
       /\ o.mutation_rate = 0 /\ ~o.mutation_rate_neff

parse_args(a) ==
    IF ExclusiveGroupError(a) \/ OptionCheckError(Namespace(a))
    THEN [error |-> TRUE, opt |-> NoOpt]
    ELSE [error |-> FALSE, opt |-> Namespace(a)]

-----------------------------------------------------------------------------
(* Potentials *)

PotStates == 0 .. (MaxPotStates - 1)
Positions(L) == 0 .. (L - 1)
PairIndex(L) == Positions(L) \X Positions(L) \X PotStates \X PotStates
SingleIndex(L) == Positions(L) \X PotStates

\* Coupling tensors a raw file can hold: symmetric ones with zero
\* self-coupling, and ones that are not symmetric.
SymPair(L, s) ==
    [i \in PairIndex(L) |->
        IF i[1] = i[2] THEN 0
        ELSE s + (i[1] * MaxPotStates + i[3]) * (i[2] * MaxPotStates + i[4])]
AsymPair(L, s) ==
    [i \in PairIndex(L) |->
        s + (i[1] * MaxPotStates + i[3]) + 2 * (i[2] * MaxPotStates + i[4])]
SingleField(L, s) == [i \in SingleIndex(L) |-> s + i[1] + 2 * i[2]]

\* ccm.x_pair[non_contact_indices[0], non_contact_indices[1], :, :] = 0
\* The index list is the set of its (i, j): assigning 0 does not depend on
\* order or repetition.
MaskNonContactsBothWays(x_pair, nc) ==
    [i \in DOMAIN x_pair |->
        IF <<i[1], i[2]>> \in nc \/ <<i[2], i[1]>> \in nc THEN 0 ELSE x_pair[i]]
MaskNonContactsRows(x_pair, nc) ==
    [i \in DOMAIN x_pair |->
        IF \E p \in nc : p[1] = i[1] THEN 0 ELSE x_pair[i]]
MaskNonContacts(x_pair, nc) ==
    [i \in DOMAIN x_pair |-> IF <<i[1], i[2]>> \in nc THEN 0 ELSE x_pair[i]]

\* ccmpred.parameter_handling.structured_to_linear: x keeps the two tensors
\* it was built from.
structured_to_linear(x_single, x_pair) == [x_single |-> x_single, x_pair |-> x_pair]

-----------------------------------------------------------------------------
(* run_ccmgen.main *)

NoCcm == [alignment_read |-> FALSE, potentials_read |-> FALSE, pdb_read |-> FALSE,
          N |-> 0, L |-> 0, max_gap_pos |-> 100, gapped_positions |-> 0,
          x_single |-> <<>>, x_pair |-> <<>>, non_contact_indices |-> {}]
NoTree == [object |-> FALSE, specified |-> FALSE, ids |-> <<>>]
NoX == [x_single |-> <<>>, x_pair |-> <<>>]
NoSample == [rows |-> 0, cols |-> 0]
NotWritten == [done |-> FALSE, rows |-> 0, cols |-> 0, ids |-> <<>>, descriptions |-> 0]

LeafIds(n) == [i \in 1 .. n |-> <<"leaf", i - 1>>]
\* ["seq {0}".format(i) for i in range(rows)]
SeqIds(n) == [i \in 1 .. n |-> <<"seq", i - 1>>]

\* opt = parse_args()
ParseArgs ==
    /\ pc = "start"
    /\ LET r == parse_args(argv)
       IN  \/ /\ r.error
              /\ pc' = "exit"
              /\ UNCHANGED opt
           \/ /\ ~r.error
              /\ pc' = "parsed"
              /\ opt' = r.opt
    /\ UNCHANGED wvars
    /\ UNCHANGED <<argv, files, ccm, x, tree, sampler, msa_sampled, written>>

\* ccm.read_alignment(...); ccm.intialise_potentials()
ReadInputs ==
    /\ pc = "parsed"
    /\ ccm' = [ccm EXCEPT !.alignment_read = TRUE, !.potentials_read = TRUE,
                          !.N = files.N, !.L = files.L,
                          !.max_gap_pos = opt.max_gap_pos,
                          !.gapped_positions =
                              IF opt.max_gap_pos < 100 THEN files.gapped ELSE 0,
                          !.x_single = files.x_single, !.x_pair = files.x_pair]
    /\ pc' = "potentials"
    /\ UNCHANGED wvars
    /\ UNCHANGED <<argv, files, opt, x, tree, sampler, msa_sampled, written>>

\* if opt.pdbfile: ccm.read_pdb(...); ccm.x_pair[non_contact_indices...] = 0
MaskContacts ==
    /\ pc = "potentials"
    /\ \/ /\ Truthy(opt.pdbfile)
          /\ \E nc \in SUBSET (Positions(ccm.L) \X Positions(ccm.L)) :
                ccm' = [ccm EXCEPT !.pdb_read = TRUE, !.non_contact_indices = nc,
                                   !.x_pair = MaskNonContacts(ccm.x_pair, nc)]
       \/ /\ ~Truthy(opt.pdbfile)
          /\ UNCHANGED ccm
    /\ pc' = "masked"
    /\ UNCHANGED wvars
    /\ UNCHANGED <<argv, files, opt, x, tree, sampler, msa_sampled, written>>

\* x = ccmpred.parameter_handling.structured_to_linear(ccm.x_single, ccm.x_pair, ...)
Flatten ==
    /\ pc = "masked"
    /\ x' = structured_to_linear(ccm.x_single, ccm.x_pair)
    /\ pc' = "flattened"
    /\ UNCHANGED wvars
    /\ UNCHANGED <<argv, files, opt, ccm, tree, sampler, msa_sampled, written>>

\* if opt.nseq == 0: opt.nseq = ccm.N; tree = CCMTree(); tree.specify_tree(...)
SpecifyTree ==
    /\ pc = "flattened"
    /\ LET nseq == IF opt.nseq = 0 THEN ccm.N ELSE opt.nseq
       IN  /\ opt' = [opt EXCEPT !.nseq = nseq]
           /\ \/ /\ opt.tree_file # None
                 /\ \E leaves \in 1 .. MaxLeaves :
                       tree' = [object |-> TRUE, specified |-> TRUE, ids |-> LeafIds(leaves)]
              \/ /\ opt.tree_file = None /\ opt.tree_source # "None"
                 /\ tree' = [object |-> TRUE, specified |-> TRUE, ids |-> LeafIds(nseq)]
              \/ /\ opt.tree_file = None /\ opt.tree_source = "None"
                 /\ tree' = [object |-> TRUE, specified |-> FALSE, ids |-> <<>>]
    /\ pc' = "tree"
    /\ UNCHANGED wvars
    /\ UNCHANGED <<argv, files, ccm, x, sampler, msa_sampled, written>>

\* The sampler the if/elif/else of main selects.
Dispatch(tree_is_not_none, o) ==
    IF tree_is_not_none /\ o.mutation_rate_neff THEN "sample_to_neff_increasingly"
    ELSE IF tree_is_not_none /\ o.mutation_rate > 0 THEN "sample_with_mutation_rate"
    ELSE "generate_mcmc_sample"

\* A tree sampler returns one row per leaf and fails on a tree that was never
\* specified; the MCMC sampler returns size rows.
Sample ==
    /\ pc = "tree"
    /\ LET s == Dispatch(tree.object, opt)
       IN  /\ sampler' = Append(sampler, s)
           /\ \/ /\ s # "generate_mcmc_sample" /\ tree.specified
                 /\ msa_sampled' = [rows |-> Len(tree.ids), cols |-> ccm.L]
                 /\ pc' = "sampled"
              \/ /\ s # "generate_mcmc_sample" /\ ~tree.specified
                 /\ UNCHANGED msa_sampled
                 /\ pc' = "failed"
              \/ /\ s = "generate_mcmc_sample"
                 /\ msa_sampled' = [rows |-> opt.mcmc_nseq, cols |-> ccm.L]
                 /\ pc' = "sampled"
    /\ UNCHANGED wvars
    /\ UNCHANGED <<argv, files, opt, ccm, x, tree, written>>

\* backinsert_gapped_positions_aln, then write_msa(f, msa_sampled, tree.ids, ...)
WriteOutput ==
    /\ pc = "sampled"
    /\ LET out == IF ccm.max_gap_pos < 100
                  THEN [msa_sampled EXCEPT !.cols = @ + ccm.gapped_positions]
                  ELSE msa_sampled
           ids == IF tree.object THEN tree.ids ELSE SeqIds(out.rows)
       IN  /\ msa_sampled' = out
           /\ written' = [done |-> TRUE, rows |-> out.rows, cols |-> out.cols,
                          ids |-> tree.ids, descriptions |-> out.rows]
    /\ pc' = "done"
    /\ UNCHANGED wvars
    /\ UNCHANGED <<argv, files, opt, ccm, x, tree, sampler>>

NextMain ==
    \/ ParseArgs
    \/ ReadInputs
    \/ MaskContacts
    \/ Flatten
    \/ SpecifyTree
    \/ Sample
    \/ WriteOutput

-----------------------------------------------------------------------------
(* Command lines and input files *)

CommandLines ==
    [tree_newick : {None, <<"tree.nwk">>},
     tree_binary : BOOLEAN,
     tree_star : BOOLEAN,
     mutation_rate : {None, <<-1>>, <<0>>, <<1>>},
     mutation_rate_neff : BOOLEAN,
     nseq : 0 .. MaxNseq,
     mcmc : BOOLEAN,
     mcmc_nseq : 1 .. MaxMcmcNseq,
     pdbfile : {None, <<"structure.pdb">>},
     max_gap_pos : {50, 100}]

InputFiles(Ls, seeds) ==
    UNION {[N : 1 .. MaxN, L : {L}, gapped : 0 .. 1,
            x_single : {SingleField(L, 1)},
            x_pair : {SymPair(L, s) : s \in seeds} \cup {AsymPair(L, s) : s \in seeds}] :
           L \in Ls}

MainOff ==
    /\ argv = NoOpt
    /\ files = <<>>
    /\ pc = "off"
    /\ opt = NoOpt
    /\ ccm = NoCcm
    /\ x = NoX
    /\ tree = NoTree
    /\ sampler = <<>>
    /\ msa_sampled = NoSample
    /\ written = NotWritten

\* Every small alignment, and the worked example.
InitWeights ==
    /\ msa \in Alignments
    /\ wpc = "idle"
    /\ wargs = NoArgs
    /\ weights = Ok(<<>>)
    /\ cws_calls = 0
    /\ visited = <<>>
    /\ MainOff

WeightsOff ==
    /\ msa = <<>>
    /\ wpc = "off"
    /\ wargs = NoArgs
    /\ weights = Ok(<<>>)
    /\ cws_calls = 0
    /\ visited = <<>>

MainStart ==
    /\ pc = "start"
    /\ opt = NoOpt
    /\ ccm = NoCcm
    /\ x = NoX
    /\ tree = NoTree
    /\ sampler = <<>>
    /\ msa_sampled = NoSample
    /\ written = NotWritten

\* Every command line, on one short alignment.
InitMain ==
    /\ WeightsOff
    /\ argv \in CommandLines
    /\ files \in {f \in InputFiles({1}, {1}) : f.x_pair = SymPair(1, 1)}
    /\ MainStart

\* Every coupling tensor and contact list, on the command lines that differ
\* in --pdb-file (and one the parser rejects).
InitMask ==
    /\ WeightsOff
    /\ argv \in {a \in CommandLines :
                    /\ a.tree_newick = None /\ ~a.tree_binary /\ ~a.tree_star
                    /\ a.mutation_rate = None /\ ~a.mutation_rate_neff
                    /\ a.nseq = 0 /\ a.mcmc_nseq = 1 /\ a.max_gap_pos = 100}
    /\ files \in {f \in InputFiles(1 .. MaxL, 1 .. MaxSeed) : f.N = 1 /\ f.gapped = 0}
    /\ MainStart

\* The weighting functions alone, main alone (over the command lines, and
\* over the potentials), and all of them together.
SpecWeights == InitWeights /\ [][NextWeights]_vars
SpecMain == InitMain /\ [][NextMain]_vars
SpecMask == InitMask /\ [][NextMain]_vars

Init == InitWeights \/ InitMain \/ InitMask
Next == NextWeights \/ NextMain
Spec == Init /\ [][Next]_vars

-----------------------------------------------------------------------------
(* Reference definitions used by the properties *)

AllOnes(w, N) == Len(w) = N /\ \A n \in 1 .. N : w[n] = ROne
NonNegative(w) == \A n \in 1 .. Len(w) : RFinite(w[n]) /\ RLeq(RZero, w[n])

RECURSIVE RSumOver(_, _)
RSumOver(S, f) ==
    IF S = {} THEN RZero
    ELSE LET e == CHOOSE e \in S : TRUE IN RAdd(f[e], RSumOver(S \ {e}, f))

\* Occurrences of state a in column l, gaps not counted unless count_gaps.
ColumnCount(m, l, a, count_gaps) ==
    IF a = 0 /\ ~count_gaps THEN 0
    ELSE Cardinality({r \in 1 .. Len(m) : m[r][l] = a})
ColumnUnique(m, l, count_gaps) ==
    Cardinality({m[r][l] : r \in 1 .. Len(m)} \ (IF count_gaps THEN {} ELSE {0}))

\* Henikoff weight of row n: the sum over the columns with a counted state.
HenikoffOfRow(m, n, count_gaps) ==
    LET cols == {l \in 1 .. Len(m[1]) : ColumnCount(m, l, m[n][l], count_gaps) # 0}
    IN  RSumOver(cols, [l \in cols |->
            <<1, ColumnCount(m, l, m[n][l], count_gaps) * ColumnUnique(m, l, count_gaps)>>])

ColumnPairs(L) == {p \in (1 .. L) \X (1 .. L) : p[1] < p[2]}
RowPairCount(m, n, p) ==
    Cardinality({r \in 1 .. Len(m) : m[r][p[1]] = m[n][p[1]] /\ m[r][p[2]] = m[n][p[2]]})
ObservedPairs(m, p) == Cardinality({<<m[r][p[1]], m[r][p[2]]>> : r \in 1 .. Len(m)})

HenikoffPairOfRow(m, n) ==
    RSumOver(ColumnPairs(Len(m[1])),
             [p \in ColumnPairs(Len(m[1])) |->
                 <<1, RowPairCount(m, n, p) * ObservedPairs(m, p)>>])

TreeOptionGiven(a) == Given(a.tree_newick) \/ a.tree_binary \/ a.tree_star
TreeSamplers == {"sample_to_neff_increasingly", "sample_with_mutation_rate"}
AfterFlatten == {"flattened", "tree", "sampled", "failed", "done"}
AfterSampling == {"sampled", "failed", "done"}

SymmetricTensor(t) ==
    \A i \in DOMAIN t : t[i] = t[<<i[2], i[1], i[4], i[3]>>]
SymmetricList(nc) == \A p \in nc : <<p[2], p[1]>> \in nc

-----------------------------------------------------------------------------
(* Properties *)

\* C1: weights_uniform returns N ones (sum N), and weights_simple with a
\* cutoff >= 1 returns the same vector for either count_gaps, without calling
\* calculate_weights_simple.
C1_SimpleAtCutoffOneIsUniform ==
    /\ wpc = "weights_uniform" =>
          /\ weights.ok /\ AllOnes(weights.v, Len(msa))
          /\ RSumSeq(weights.v) = RInt(Len(msa))
    /\ (wpc = "weights_simple" /\ RLeq(ROne, wargs.cutoff)) =>
          /\ weights.ok /\ AllOnes(weights.v, Len(msa))
          /\ RSumSeq(weights.v) = RInt(Len(msa))
          /\ cws_calls = 0

\* C1 witness: cutoff exactly 1 on an alignment with two identical rows,
\* where identity counting would have halved both weights.
C1_Witness ==
    /\ wpc = "weights_simple" /\ wargs.cutoff = ROne /\ wargs.count_gaps
    /\ Len(msa) = 2 /\ Len(msa[1]) = 2 /\ msa[1] = msa[2]
    /\ weights.v = <<ROne, ROne>>

\* C2: weights_henikoff returns one entry per row, the n-th being the sum
\* over the columns with a counted state of 1/(count * unique_aa); nothing
\* divides by zero and the entries are non-negative.
C2_HenikoffPerRow ==
    wpc = "weights_henikoff" =>
        /\ weights.ok
        /\ Len(weights.v) = Len(msa)
        /\ NonNegative(weights.v)
        /\ \A n \in 1 .. Len(msa) :
              weights.v[n] = HenikoffOfRow(msa, n, wargs.count_gaps)

\* C3: on the worked example with gaps counted, weights_henikoff returns
\* [4/3, 4/3, 1, 4/3].
C3_HenikoffExample ==
    (wpc = "weights_henikoff" /\ msa = HenikoffExample /\ wargs.count_gaps) =>
        weights = Ok(<< <<4, 3>>, <<4, 3>>, <<1, 1>>, <<4, 3>> >>)

\* C4 as stated: for each of the four policies and every alignment with
\* N >= 1 and L >= 1, the weights are non-negative and 0 < sum <= N, with
\* sum = N for uniform weighting.
C4_SumBoundedByN ==
    (wpc \in {"weights_uniform", "weights_simple", "weights_henikoff",
              "weights_henikoff_pair"} /\ Len(msa[1]) >= 1 /\ weights.ok) =>
        /\ NonNegative(weights.v)
        /\ RLess(RZero, RSumSeq(weights.v))
        /\ RLeq(RSumSeq(weights.v), RInt(Len(msa)))
        /\ wpc = "weights_uniform" => RSumSeq(weights.v) = RInt(Len(msa))

\* C4 amended: the bound 0 < sum <= N holds for uniform and simple weighting
\* (sum = N for uniform); the two Henikoff policies return non-negative
\* weights, and those of weights_henikoff_pair sum to L(L-1)/2.
C4_SumBoundedForUniformAndSimple ==
    (wpc # "idle" /\ Len(msa[1]) >= 1 /\ weights.ok) =>
        /\ NonNegative(weights.v)
        /\ wpc \in {"weights_uniform", "weights_simple"} =>
              /\ RLess(RZero, RSumSeq(weights.v))
              /\ RLeq(RSumSeq(weights.v), RInt(Len(msa)))
        /\ wpc = "weights_uniform" => RSumSeq(weights.v) = RInt(Len(msa))
        /\ wpc = "weights_henikoff_pair" =>
              RSumSeq(weights.v) = RInt(Cardinality(ColumnPairs(Len(msa[1]))))

\* C4 witness: simple weighting below 1 that downweights two identical rows,
\* so that the sum is strictly below N.
C4_Witness ==
    /\ wpc = "weights_simple" /\ wargs.cutoff = <<4, 5>>
    /\ Len(msa) = 3 /\ Len(msa[1]) = 2 /\ msa[1] = msa[2] /\ msa[3] # msa[1]
    /\ weights.v = << <<1, 2>>, <<1, 2>>, <<1, 1>> >>

\* C5: weights_henikoff_pair returns, for each row n, the sum over the column
\* pairs k < l of 1/(pair_count * unique_pairs); the loops visit each pair
\* k < l exactly once and no other pair, no denominator is zero, and the
\* result is all zeros when L < 2.
C5_HenikoffPair ==
    wpc = "weights_henikoff_pair" =>
        /\ weights.ok
        /\ Len(weights.v) = Len(msa)
        /\ \A n \in 1 .. Len(msa) :
              /\ RFinite(weights.v[n])
              /\ weights.v[n] = HenikoffPairOfRow(msa, n)
        /\ \A i \in 1 .. Len(visited) : visited[i] \in ColumnPairs(Len(msa[1]))
        /\ \A p \in ColumnPairs(Len(msa[1])) :
              Cardinality({i \in 1 .. Len(visited) : visited[i] = p}) = 1
        /\ \A n \in 1 .. Len(msa) : \A i \in 1 .. Len(visited) :
              pair_counts(msa, visited[i][1], visited[i][2],
                          msa[n][visited[i][1]], msa[n][visited[i][2]])
                * unique_pairs(msa, visited[i][1], visited[i][2]) > 0
        /\ Len(msa[1]) < 2 => \A n \in 1 .. Len(msa) : weights.v[n] = RZero

\* C5 witness: three columns (three pairs), two rows that differ.
C5_Witness ==
    /\ wpc = "weights_henikoff_pair"
    /\ msa = << <<0, 1, 1>>, <<0, 1, 2>> >>
    /\ Len(visited) = 3
    /\ weights.v = << <<3, 2>>, <<3, 2>> >>

C7_SymmetryPreserved ==
    (pc \in AfterFlatten /\ SymmetricTensor(files.x_pair)) =>
        SymmetricTensor(x.x_pair)

\* C7 amended: the same, for the non-contact index lists that hold (j, i)
\* whenever they hold (i, j).
C7_SymmetryPreservedBySymmetricList ==
    (/\ pc \in AfterFlatten
     /\ SymmetricTensor(files.x_pair)
     /\ ccm.pdb_read => SymmetricList(ccm.non_contact_indices)) =>
        SymmetricTensor(x.x_pair)

\* C7 witness: a constrained run that masked the pair (0,1) and (1,0) of a
\* symmetric tensor with non-zero couplings there.
C7_Witness ==
    /\ pc = "flattened" /\ ccm.pdb_read
    /\ ccm.non_contact_indices = {<<0, 1>>, <<1, 0>>}
    /\ files.L = 2 /\ files.x_pair = SymPair(2, 1)
    /\ files.x_pair[<<0, 1, 1, 1>>] # 0
    /\ x.x_pair[<<0, 1, 1, 1>>] = 0 /\ x.x_pair[<<1, 0, 1, 1>>] = 0

\* C8: once x is built (and so before any sampler runs), with a PDB file every
\* block in the non-contact list is zero and every other block and all of
\* x_single are as loaded; without one, both tensors are as loaded.
C8_MaskingTouchesOnlyNonContacts ==
    /\ sampler # <<>> => pc \in AfterFlatten
    /\ pc \in AfterFlatten =>
          /\ x.x_single = files.x_single
          /\ DOMAIN x.x_pair = DOMAIN files.x_pair
          /\ Given(argv.pdbfile) =>
                \A i \in DOMAIN files.x_pair :
                    x.x_pair[i] = IF <<i[1], i[2]>> \in ccm.non_contact_indices
                                  THEN 0 ELSE files.x_pair[i]
          /\ ~Given(argv.pdbfile) => x.x_pair = files.x_pair

\* C8 witness: a constrained run that masked only (0,1): that block is zero
\* and its mirror block (1,0) keeps its loaded, non-zero couplings.
C8_Witness ==
    /\ pc = "sampled" /\ Given(argv.pdbfile)
    /\ ccm.non_contact_indices = {<<0, 1>>}
    /\ files.L = 2 /\ files.x_pair = AsymPair(2, 1)
    /\ x.x_pair[<<0, 1, 0, 0>>] = 0
    /\ x.x_pair[<<1, 0, 0, 0>>] = files.x_pair[<<1, 0, 0, 0>>]
    /\ x.x_pair[<<1, 0, 0, 0>>] # 0

\* C9: an accepted run invokes exactly one sampler: a tree sampler (the Neff
\* one when --mutation-rate-neff is set, else the constant-rate one) if and
\* only if a tree option was given, the MCMC sampler if and only if none was.
C9_SamplerChosenByTreeOption ==
    pc \in AfterSampling =>
        /\ Len(sampler) = 1
        /\ sampler[1] \in TreeSamplers <=> TreeOptionGiven(argv)
        /\ sampler[1] = "generate_mcmc_sample" <=> ~TreeOptionGiven(argv)
        /\ TreeOptionGiven(argv) =>
              (sampler[1] = "sample_to_neff_increasingly" <=> argv.mutation_rate_neff)

\* C10: write_msa receives one identifier per sampled row, in row order: the
\* tree's leaf identifiers after a tree sampler, "seq i" for i in 0..rows-1
\* after the MCMC sampler (mcmc_nseq rows).
C10_IdentifiersMatchRows ==
    pc = "done" =>
        /\ Len(written.ids) = written.rows
        /\ sampler[1] \in TreeSamplers =>
              /\ written.ids = tree.ids
              /\ written.rows = Len(tree.ids)
        /\ sampler[1] = "generate_mcmc_sample" =>
              /\ written.rows = opt.mcmc_nseq
              /\ written.ids = SeqIds(written.rows)

====
